---- MODULE Spec2Model ----
(***************************************************************************)
(* The typed value / schema engine of DbmsRest (models.py) and the request *)
(* handlers of main.py that drive it: column construction, check_value,    *)
(* row insertion / removal / cell update, table-id and row-id allocation,  *)
(* and the table difference.                                               *)
(***************************************************************************)
EXTENDS Integers, Sequences, FiniteSets, TLC

\* Channel values range over 0..MaxChan (the code's conint(ge=0, le=255),
\* scaled down).
MaxChan == 2
\* A table hands out at most MaxRowIds row ids, a database at most
\* MaxTableIds table ids; where several tables come and go each hands out at
\* most MaxRowIdsEach row ids.
MaxRowIds == 3
MaxTableIds == 2
MaxRowIdsEach == 2

\* Python's None for the six Optional bounds of a Column.
None == -1

Chan == 0..MaxChan
OptChan == Chan \cup {None}

(***************************************************************************)
(* Values.  Value = Union[int, Decimal, str, Color].  Every value is a     *)
(* record of the same shape: kind is the Python type name, num the number  *)
(* (an int's value; a Decimal's value in tenths), txt the characters of a  *)
(* str, r/g/b the channels of a Color.  Fields a kind does not use are 0   *)
(* or <<>>.                                                                *)
(***************************************************************************)
IntVal(n) == [kind |-> "int", num |-> n, txt |-> <<>>, r |-> 0, g |-> 0, b |-> 0]
DecVal(tenths) == [kind |-> "Decimal", num |-> tenths, txt |-> <<>>, r |-> 0, g |-> 0, b |-> 0]
StrVal(s) == [kind |-> "str", num |-> 0, txt |-> s, r |-> 0, g |-> 0, b |-> 0]
ColorVal(r, g, b) == [kind |-> "Color", num |-> 0, txt |-> <<>>, r |-> r, g |-> g, b |-> b]

Types == {"Integer", "Real", "Char", "String", "Color", "ColorInvl"}

\* isinstance(value, int) or isinstance(value, Decimal)
IsNumber(v) == v.kind \in {"int", "Decimal"}

\* The numeric value of an int or a Decimal, in tenths.
Tenths(v) == IF v.kind = "int" THEN 10 * v.num ELSE v.num

\* A comparison of two cells that also tells an int from a Decimal.
PyEq_Typed(a, b) == a = b

\* Python's == on two cells: int and Decimal compare by numeric value
\* whatever their kinds, str by characters, Color (a pydantic model) by its
\* fields; values of otherwise different kinds are unequal.
PyEq(a, b) ==
    IF IsNumber(a) /\ IsNumber(b) THEN Tenths(a) = Tenths(b)
    ELSE IF a.kind = "str" /\ b.kind = "str" THEN a.txt = b.txt
    ELSE IF a.kind = "Color" /\ b.kind = "Color"
         THEN a.r = b.r /\ a.g = b.g /\ a.b = b.b
    ELSE FALSE

\* Python's == on two cell lists: same length and element-wise ==.
CellsEq(x, y) ==
    /\ Len(x) = Len(y)
    /\ \A i \in 1..Len(x) : PyEq(x[i], y[i])

(***************************************************************************)
(* Columns.                                                                *)
(***************************************************************************)
Col(name, type, r_min, r_max, g_min, g_max, b_min, b_max) ==
    [name |-> name, type |-> type,
     r_min |-> r_min, r_max |-> r_max,
     g_min |-> g_min, g_max |-> g_max,
     b_min |-> b_min, b_max |-> b_max]

Plain(name, type) == Col(name, type, None, None, None, None, None, None)

Bounds(c) == <<c.r_min, c.r_max, c.g_min, c.g_max, c.b_min, c.b_max>>

\* Column.check with the range test of the first channel only.
check_RedOnly(c) ==
    IF c.type = "ColorInvl"
    THEN IF \E i \in 1..6 : Bounds(c)[i] = None THEN "MissingRange"
         ELSE IF c.r_min > c.r_max THEN "RangeOutOfOrder"
         ELSE "ok"
    ELSE IF \E i \in 1..6 : Bounds(c)[i] # None THEN "UnexpectedRange"
         ELSE "ok"

\* Column.check, the model validator run after the fields are set: "ok" or
\* the kind of the ValueError raised.
check(c) ==
    IF c.type = "ColorInvl"
    THEN IF \E i \in 1..6 : Bounds(c)[i] = None THEN "MissingRange"
         ELSE IF \/ c.r_min > c.r_max
                 \/ c.g_min > c.g_max
                 \/ c.b_min > c.b_max THEN "RangeOutOfOrder"
         ELSE "ok"
    ELSE IF \E i \in 1..6 : Bounds(c)[i] # None THEN "UnexpectedRange"
         ELSE "ok"

\* Column.type_str: the expected-type description of an error message.
type_str(c) ==
    IF c.type # "ColorInvl" THEN <<c.type>>
    ELSE <<"ColorInvl (R,G,B)", c.r_min, c.r_max, c.g_min, c.g_max, c.b_min, c.b_max>>

\* Column.check_value with exclusive upper bounds.
check_value_Exclusive(c, v) ==
    IF c.type = "Integer" THEN v.kind = "int"
    ELSE IF c.type = "Real" THEN v.kind = "int" \/ v.kind = "Decimal"
    ELSE IF c.type = "Char" THEN v.kind = "str" /\ Len(v.txt) = 1
    ELSE IF c.type = "String" THEN v.kind = "str"
    ELSE IF c.type = "Color" THEN v.kind = "Color"
    ELSE IF c.type = "ColorInvl"
         THEN /\ v.kind = "Color"
              /\ c.r_min <= v.r /\ v.r < c.r_max
              /\ c.g_min <= v.g /\ v.g < c.g_max
              /\ c.b_min <= v.b /\ v.b < c.b_max
    ELSE FALSE

\* Column.check_value: TRUE when the assertion for the column's type passes,
\* FALSE when it raises the ValueError (TypeMismatch).
check_value(c, v) ==
    IF c.type = "Integer" THEN v.kind = "int"
    ELSE IF c.type = "Real" THEN v.kind = "int" \/ v.kind = "Decimal"
    ELSE IF c.type = "Char" THEN v.kind = "str" /\ Len(v.txt) = 1
    ELSE IF c.type = "String" THEN v.kind = "str"
    ELSE IF c.type = "Color" THEN v.kind = "Color"
    ELSE IF c.type = "ColorInvl"
         THEN /\ v.kind = "Color"
              /\ c.r_min <= v.r /\ v.r <= c.r_max
              /\ c.g_min <= v.g /\ v.g <= c.g_max
              /\ c.b_min <= v.b /\ v.b <= c.b_max
    ELSE FALSE

\* The ValueError check_value raises: expected type and offending value.
TypeMismatch(c, v) ==
    [kind |-> "TypeMismatch", expected |-> type_str(c), found |-> v]

\* Column.get_type: the type-only view of a column; the green and the blue
\* bounds of the view are set from r_min / r_max.
get_type(c, name) ==
    Col(name, c.type, c.r_min, c.r_max, c.r_min, c.r_max, c.r_min, c.r_max)

(***************************************************************************)
(* Tables.  A Table is [id, name, columns, rows, next_id]: rows is the     *)
(* dict _rows (row id -> Row), next_id the private counter _next_id.  A    *)
(* Row is [id, cells].                                                     *)
(***************************************************************************)
Row(id, cells) == [id |-> id, cells |-> cells]

\* Table(id=..., name=..., columns=...): no rows, counter 0.
Table(id, name, columns) ==
    [id |-> id, name |-> name, columns |-> columns, rows |-> <<>>, next_id |-> 0]

\* dict[key] = value
Put(d, key, value) ==
    [k \in DOMAIN d \cup {key} |-> IF k = key THEN value ELSE d[k]]

\* del dict[key]
Del(d, key) == [k \in DOMAIN d \ {key} |-> d[k]]

\* The loop of add_row over the columns from position i on: the position of
\* the first cell its column's check_value rejects, 0 when every cell passes.
RECURSIVE FirstFailure(_, _, _)
FirstFailure(columns, cells, i) ==
    IF i > Len(columns) THEN 0
    ELSE IF ~check_value(columns[i], cells[i]) THEN i
    ELSE FirstFailure(columns, cells, i + 1)

\* What add_row does once the row is validated: store it under the counter
\* and advance the counter.
Commit(t, cells) ==
    [error |-> "", detail |-> <<>>,
     table |-> [t EXCEPT !.rows = Put(t.rows, t.next_id, Row(t.next_id, cells)),
                         !.next_id = t.next_id + 1],
     row |-> <<Row(t.next_id, cells)>>]

\* An add_row that raises: the table is returned as it was.
Raise(t, error, detail) ==
    [error |-> error, detail |-> detail, table |-> t, row |-> <<>>]

\* add_row taking the number of stored rows as the new row's id.
add_row_LenId(t, cells) ==
    IF Len(cells) # Len(t.columns) THEN Raise(t, "RowLengthMismatch", <<>>)
    ELSE LET i == FirstFailure(t.columns, cells, 1)
             id == Cardinality(DOMAIN t.rows) IN
         IF i # 0 THEN Raise(t, "TypeMismatch", <<TypeMismatch(t.columns[i], cells[i])>>)
         ELSE [error |-> "", detail |-> <<>>,
               table |-> [t EXCEPT !.rows = Put(t.rows, id, Row(id, cells)),
                                   !.next_id = t.next_id + 1],
               row |-> <<Row(id, cells)>>]

\* add_row without the validation loop.
add_row_NoCheck(t, cells) ==
    IF Len(cells) # Len(t.columns) THEN Raise(t, "RowLengthMismatch", <<>>)
    ELSE Commit(t, cells)

\* add_row validating the cells it can pair with a column before it
\* compares the lengths.
add_row_CellsFirst(t, cells) ==
    LET n == IF Len(cells) < Len(t.columns) THEN Len(cells) ELSE Len(t.columns)
        i == FirstFailure(SubSeq(t.columns, 1, n), cells, 1) IN
    IF i # 0 THEN Raise(t, "TypeMismatch", <<TypeMismatch(t.columns[i], cells[i])>>)
    ELSE IF Len(cells) # Len(t.columns) THEN Raise(t, "RowLengthMismatch", <<>>)
    ELSE Commit(t, cells)

\* add_row advancing the counter before it validates.
add_row_EarlyCount(t, cells) ==
    LET u == [t EXCEPT !.next_id = t.next_id + 1] IN
    IF Len(cells) # Len(t.columns) THEN Raise(u, "RowLengthMismatch", <<>>)
    ELSE LET i == FirstFailure(t.columns, cells, 1) IN
         IF i # 0 THEN Raise(u, "TypeMismatch", <<TypeMismatch(t.columns[i], cells[i])>>)
         ELSE Commit(t, cells)

\* Table.add_row: the length check, then every cell against its column in
\* column order, then the commit.
add_row(t, cells) ==
    IF Len(cells) # Len(t.columns) THEN Raise(t, "RowLengthMismatch", <<>>)
    ELSE LET i == FirstFailure(t.columns, cells, 1) IN
         IF i # 0 THEN Raise(t, "TypeMismatch", <<TypeMismatch(t.columns[i], cells[i])>>)
         ELSE Commit(t, cells)

\* Table.remove_row
remove_row(t, id) ==
    IF id \in DOMAIN t.rows THEN [t EXCEPT !.rows = Del(t.rows, id)] ELSE t

\* contains_row comparing the first cell only.
contains_row_FirstCell(t, row) ==
    \E k \in DOMAIN t.rows :
        \/ Len(row.cells) = 0
        \/ PyEq(row.cells[1], t.rows[k].cells[1])

\* Table.contains_row: any(row.cells == value.cells for value in rows)
contains_row(t, row) ==
    \E k \in DOMAIN t.rows : CellsEq(row.cells, t.rows[k].cells)

\* The rows of left, taken in the order of the dict (the order of their
\* ids), that right does not contain.
RECURSIVE Retained(_, _, _)
Retained(left, right, ids) ==
    IF ids = {} THEN <<>>
    ELSE LET id == CHOOSE k \in ids : \A j \in ids : k <= j
             rest == Retained(left, right, ids \ {id}) IN
         IF ~contains_row(right, left.rows[id])
         THEN Put(rest, id, left.rows[id])
         ELSE rest

\* The name of a column of the difference.
CombinedName(l, r) ==
    IF l.name = r.name THEN l.name
    ELSE "'" \o l.name \o "' / '" \o r.name \o "'"

\* Table.__sub__: the ValueError raised, or the TableDifference.
Table_sub(left, right) ==
    IF Len(left.columns) # Len(right.columns)
    THEN [error |-> "IncompatibleColumnCount", difference |-> <<>>]
    ELSE IF \E i \in 1..Len(left.columns) :
                get_type(left.columns[i], "") # get_type(right.columns[i], "")
    THEN [error |-> "IncompatibleColumnTypes", difference |-> <<>>]
    ELSE [error |-> "",
          difference |->
            <<[left_table |-> left,
               right_table |-> right,
               columns |-> [i \in 1..Len(left.columns) |->
                              get_type(left.columns[i],
                                       CombinedName(left.columns[i], right.columns[i]))],
               rows |-> Retained(left, right, DOMAIN left.rows)]>>]

(***************************************************************************)
(* Database.  [name, tables, next_id]: tables is the dict table id ->      *)
(* Table, next_id the private counter _next_id.                            *)
(***************************************************************************)
\* Database.add_table: the database afterwards and the table returned.
add_table(db, name, columns) ==
    LET table == Table(db.next_id, name, columns) IN
    [database |-> [db EXCEPT !.tables = Put(db.tables, db.next_id, table),
                             !.next_id = db.next_id + 1],
     table |-> table]

\* Database.remove_table
remove_table(db, id) ==
    IF id \in DOMAIN db.tables THEN [db EXCEPT !.tables = Del(db.tables, id)] ELSE db

(***************************************************************************)
(* State.                                                                  *)
(*   database      the Database registered under the name the requests     *)
(*                 carry (get_database finds it)                           *)
(*   request       the latest request: [op, args]                          *)
(*   last          the response to it                                      *)
(*   issuedTables  history: the ids of the tables create_table returned    *)
(*   issuedRows    history: per stored table, the ids of the rows          *)
(*                 create_row returned                                     *)
(*   column        the latest Column construction: <<>> or <<[input,       *)
(*                 status]>>                                               *)
(*   checked       the latest check_value on that column: <<>> or          *)
(*                 <<[value, ok]>>                                         *)
(***************************************************************************)
VARIABLES database, request, last, issuedTables, issuedRows, column, checked

vars == <<database, request, last, issuedTables, issuedRows, column, checked>>

Request(op, args) == [op |-> op, args |-> args]

Response(op, status, error, body) ==
    [op |-> op, status |-> status, error |-> error, body |-> body]

\* Database(name=...): no tables, counter 0; nothing requested yet.
Init ==
    /\ database = [name |-> "db", tables |-> <<>>, next_id |-> 0]
    /\ request = Request("none", <<>>)
    /\ last = Response("none", 0, "", <<>>)
    /\ issuedTables = <<>>
    /\ issuedRows = <<>>
    /\ column = <<>>
    /\ checked = <<>>

\* POST /databases/{database_name}/tables/: the body is parsed into Columns
\* (a column whose check raises makes the request invalid), then add_table.
create_table(name, columns) ==
    /\ request' = Request("create_table", <<name, columns>>)
    /\ UNCHANGED <<column, checked>>
    /\ IF \E i \in 1..Len(columns) : check(columns[i]) # "ok"
       THEN /\ last' = Response("create_table", 422, "SchemaError", <<>>)
            /\ UNCHANGED <<database, issuedTables, issuedRows>>
       ELSE /\ database.next_id < MaxTableIds
            /\ LET added == add_table(database, name, columns) IN
                 /\ database' = added.database
                 /\ last' = Response("create_table", 201, "", <<added.table>>)
                 /\ issuedTables' = Append(issuedTables, added.table.id)
                 /\ issuedRows' = Put(issuedRows, added.table.id, <<>>)

\* DELETE /databases/{database_name}/tables/{table_id}
delete_table(table_id) ==
    /\ request' = Request("delete_table", <<table_id>>)
    /\ UNCHANGED <<column, checked, issuedTables>>
    /\ IF table_id \notin DOMAIN database.tables
       THEN /\ last' = Response("delete_table", 404, "TableNotFound", <<>>)
            /\ UNCHANGED <<database, issuedRows>>
       ELSE /\ database' = remove_table(database, table_id)
            /\ last' = Response("delete_table", 204, "", <<>>)
            /\ issuedRows' = Del(issuedRows, table_id)

\* POST /databases/{database_name}/tables/{table_id}/rows
create_row(table_id, cells) ==
    /\ request' = Request("create_row", <<table_id, cells>>)
    /\ UNCHANGED <<column, checked, issuedTables>>
    /\ IF table_id \notin DOMAIN database.tables
       THEN /\ last' = Response("create_row", 404, "TableNotFound", <<>>)
            /\ UNCHANGED <<database, issuedRows>>
       ELSE LET added == add_row(database.tables[table_id], cells) IN
            /\ database' = [database EXCEPT !.tables[table_id] = added.table]
            /\ IF added.error # ""
               THEN /\ last' = Response("create_row", 400, added.error, added.detail)
                    /\ UNCHANGED issuedRows
               ELSE /\ last' = Response("create_row", 201, "", added.row)
                    /\ issuedRows' = [issuedRows EXCEPT
                                        ![table_id] = Append(@, added.row[1].id)]

\* DELETE /databases/{database_name}/tables/{table_id}/rows/{row_id}
delete_row(table_id, row_id) ==
    /\ request' = Request("delete_row", <<table_id, row_id>>)
    /\ UNCHANGED <<column, checked, issuedTables, issuedRows>>
    /\ IF table_id \notin DOMAIN database.tables
       THEN /\ last' = Response("delete_row", 404, "TableNotFound", <<>>)
            /\ UNCHANGED database
       ELSE IF row_id \notin DOMAIN database.tables[table_id].rows
       THEN /\ last' = Response("delete_row", 404, "RowNotFound", <<>>)
            /\ UNCHANGED database
       ELSE /\ database' = [database EXCEPT
                              !.tables[table_id] = remove_row(@, row_id)]
            /\ last' = Response("delete_row", 204, "", <<>>)

\* update_cell_value writing the cell before it validates the value.
update_cell_value_WriteFirst(table_id, row_id, column_id, value) ==
    /\ request' = Request("update_cell_value", <<table_id, row_id, column_id, value>>)
    /\ UNCHANGED <<column, checked, issuedTables, issuedRows>>
    /\ IF table_id \notin DOMAIN database.tables
       THEN /\ last' = Response("update_cell_value", 404, "TableNotFound", <<>>)
            /\ UNCHANGED database
       ELSE IF row_id \notin DOMAIN database.tables[table_id].rows
       THEN /\ last' = Response("update_cell_value", 404, "RowNotFound", <<>>)
            /\ UNCHANGED database
       ELSE IF column_id >= Len(database.tables[table_id].columns)
       THEN /\ last' = Response("update_cell_value", 404, "ColumnNotFound", <<>>)
            /\ UNCHANGED database
       ELSE /\ database' = [database EXCEPT
                  !.tables[table_id].rows[row_id].cells[column_id + 1] = value]
            /\ IF ~check_value(database.tables[table_id].columns[column_id + 1], value)
               THEN last' = Response("update_cell_value", 400, "TypeMismatch",
                        <<TypeMismatch(database.tables[table_id].columns[column_id + 1], value)>>)
               ELSE last' = Response("update_cell_value", 200, "",
                        <<database'.tables[table_id].rows[row_id]>>)

\* PATCH /databases/{database_name}/tables/{table_id}/rows/{row_id}/cells/{column_id}
\* column_id counts from 0; the sequences of the model count from 1.
update_cell_value(table_id, row_id, column_id, value) ==
    /\ request' = Request("update_cell_value", <<table_id, row_id, column_id, value>>)
    /\ UNCHANGED <<column, checked, issuedTables, issuedRows>>
    /\ IF table_id \notin DOMAIN database.tables
       THEN /\ last' = Response("update_cell_value", 404, "TableNotFound", <<>>)
            /\ UNCHANGED database
       ELSE IF row_id \notin DOMAIN database.tables[table_id].rows
       THEN /\ last' = Response("update_cell_value", 404, "RowNotFound", <<>>)
            /\ UNCHANGED database
       ELSE IF column_id >= Len(database.tables[table_id].columns)
       THEN /\ last' = Response("update_cell_value", 404, "ColumnNotFound", <<>>)
            /\ UNCHANGED database
       ELSE IF ~check_value(database.tables[table_id].columns[column_id + 1], value)
       THEN /\ last' = Response("update_cell_value", 400, "TypeMismatch",
                        <<TypeMismatch(database.tables[table_id].columns[column_id + 1], value)>>)
            /\ UNCHANGED database
       ELSE /\ database' = [database EXCEPT
                  !.tables[table_id].rows[row_id].cells[column_id + 1] = value]
            /\ last' = Response("update_cell_value", 200, "",
                        <<database'.tables[table_id].rows[row_id]>>)

\* GET /databases/{database_name}/table_difference/{left_table_id}/{right_table_id}
\* The ValueError of the subtraction is not caught by the handler.
get_table_difference(left_table_id, right_table_id) ==
    /\ request' = Request("get_table_difference", <<left_table_id, right_table_id>>)
    /\ UNCHANGED <<database, column, checked, issuedTables, issuedRows>>
    /\ IF \/ left_table_id \notin DOMAIN database.tables
          \/ right_table_id \notin DOMAIN database.tables
       THEN last' = Response("get_table_difference", 404, "TableNotFound", <<>>)
       ELSE LET d == Table_sub(database.tables[left_table_id],
                               database.tables[right_table_id]) IN
            IF d.error # ""
            THEN last' = Response("get_table_difference", 500, d.error, <<>>)
            ELSE last' = Response("get_table_difference", 200, "", d.difference)

\* Column(name=..., type=..., r_min=..., ...): the fields are set, then check
\* runs.
ConstructColumn(input) ==
    /\ column' = <<[input |-> input, status |-> check(input)]>>
    /\ checked' = <<>>
    /\ UNCHANGED <<database, request, last, issuedTables, issuedRows>>

\* check_value of the constructed column on a value.
CheckValue(value) ==
    /\ column # <<>>
    /\ column[1].status = "ok"
    /\ checked' = <<[value |-> value, ok |-> check_value(column[1].input, value)]>>
    /\ UNCHANGED <<database, request, last, issuedTables, issuedRows, column>>

(***************************************************************************)
(* Inputs.                                                                 *)
(***************************************************************************)
TableIds == 0..(MaxTableIds - 1)
RowIds(n) == 0..(n - 1)

\* The cap on a table's counter: the table, if stored, has handed out fewer
\* than n row ids.
Below(table_id, n) ==
    table_id \in DOMAIN database.tables => database.tables[table_id].next_id < n
ColumnIds == {0, 1, 2}

\* The cell lists of at most two cells over a set of values.
CellLists(V) == {<<>>} \cup {<<a>> : a \in V} \cup {<<a, b>> : a, b \in V}

Interval(r_min, r_max, g_min, g_max, b_min, b_max) ==
    Col("k", "ColorInvl", r_min, r_max, g_min, g_max, b_min, b_max)

\* The database after create_table for each column list of a sequence.
RECURSIVE Created(_)
Created(lists) ==
    IF lists = <<>> THEN [name |-> "db", tables |-> <<>>, next_id |-> 0]
    ELSE add_table(Created(SubSeq(lists, 1, Len(lists) - 1)), "t",
                   lists[Len(lists)]).database

\* The state after the tables of a sequence of column lists were created.
InitCreated(lists) ==
    /\ database = Created(lists)
    /\ request = Request("none", <<>>)
    /\ last = Response("none", 0, "", <<>>)
    /\ issuedTables = [i \in 1..Len(lists) |-> i - 1]
    /\ issuedRows = [id \in 0..(Len(lists) - 1) |-> <<>>]
    /\ column = <<>>
    /\ checked = <<>>

(***************************************************************************)
(* Spec: tables and rows come and go in a database that starts empty.      *)
(***************************************************************************)
BadColumn == Col("bad", "Integer", 0, None, None, None, None, None)
TableInputs == {<<Plain("n", "Integer")>>, <<BadColumn>>}
RowInputs == {<<IntVal(1)>>, <<StrVal(<<"a">>)>>}

Next ==
    \/ \E columns \in TableInputs : create_table("t", columns)
    \/ \E table_id \in TableIds : delete_table(table_id)
    \/ \E table_id \in TableIds, cells \in RowInputs :
          Below(table_id, MaxRowIdsEach) /\ create_row(table_id, cells)
    \/ \E table_id \in TableIds, row_id \in RowIds(MaxRowIdsEach) :
          delete_row(table_id, row_id)

Spec == Init /\ [][Next]_vars

(***************************************************************************)
(* SpecTable: rows are added to, updated in and removed from one table.    *)
(***************************************************************************)
TableSchemas ==
    { <<>>,
      <<Plain("n", "Integer"), Plain("c", "Char")>>,
      <<Plain("x", "Real")>>,
      <<Interval(0, 1, 1, 2, 0, 0)>> }

TableValues ==
    { IntVal(1), DecVal(15),
      StrVal(<<"a">>), StrVal(<<"a", "b">>),
      ColorVal(0, 1, 0), ColorVal(0, 0, 0) }

InitTable == \E columns \in TableSchemas : InitCreated(<<columns>>)

NextTable ==
    \/ \E cells \in CellLists(TableValues) :
          Below(0, MaxRowIds) /\ create_row(0, cells)
    \/ \E row_id \in RowIds(MaxRowIds) : delete_row(0, row_id)
    \/ \E row_id \in RowIds(MaxRowIds), column_id \in ColumnIds, value \in TableValues :
          update_cell_value(0, row_id, column_id, value)

SpecTable == InitTable /\ [][NextTable]_vars

(***************************************************************************)
(* SpecDiff: two tables are filled with rows that pass add_row, rows of    *)
(* the first are removed, and the tables are subtracted.                   *)
(***************************************************************************)
NumberText == <<Plain("n", "Integer"), Plain("s", "String")>>
RealX == <<Plain("x", "Real")>>
RealY == <<Plain("y", "Real")>>
IntegerX == <<Plain("x", "Integer")>>
IntervalA == <<Interval(0, 1, 0, 1, 0, 0)>>
IntervalG == <<Interval(0, 1, 0, 2, 0, 0)>>
IntervalB == <<Interval(0, 1, 0, 1, 0, 1)>>
IntervalR == <<Interval(0, 2, 0, 1, 0, 0)>>

DiffSchemas ==
    { <<NumberText, NumberText>>,
      <<RealX, RealY>>,
      <<IntegerX, RealX>>,
      <<IntervalA, NumberText>>,
      <<IntervalA, IntervalA>>,
      <<IntervalA, IntervalG>>,
      <<IntervalA, IntervalB>>,
      <<IntervalA, IntervalR>> }

DiffRows ==
    { <<IntVal(1), StrVal(<<"a">>)>>, <<IntVal(1), StrVal(<<"b">>)>>,
      <<IntVal(1)>>, <<DecVal(10)>>,
      <<ColorVal(0, 0, 0)>> }

InitDiff == \E pair \in DiffSchemas : InitCreated(pair)

NextDiff ==
    \/ \E table_id \in {0, 1} :
          \E cells \in {c \in DiffRows : add_row(database.tables[table_id], c).error = ""} :
              Below(table_id, MaxRowIds) /\ create_row(table_id, cells)
    \/ \E row_id \in RowIds(MaxRowIds) : delete_row(0, row_id)
    \/ \E left \in {0, 1}, right \in {0, 1} : get_table_difference(left, right)

SpecDiff == InitDiff /\ [][NextDiff]_vars

(***************************************************************************)
(* SpecColumn: a column is constructed, values are checked against it and  *)
(* a table of that one column is requested.                                *)
(***************************************************************************)
ColumnInputs ==
    { Col("k", type, r_min, r_max, g_min, g_max, b_min, b_max) :
        type \in Types, r_min \in OptChan, r_max \in OptChan,
        g_min \in OptChan, g_max \in OptChan,
        b_min \in OptChan, b_max \in OptChan }

Colors == {ColorVal(r, g, b) : r \in Chan, g \in Chan, b \in Chan}

CheckedValues ==
    Colors \cup {IntVal(1), DecVal(15), StrVal(<<>>), StrVal(<<"a">>), StrVal(<<"a", "b">>)}

NextColumn ==
    \/ column = <<>> /\ \E input \in ColumnInputs : ConstructColumn(input)
    \/ \E value \in CheckedValues : CheckValue(value)
    \/ column # <<>> /\ database.next_id = 0 /\ create_table("t", <<column[1].input>>)

SpecColumn == Init /\ [][NextColumn]_vars

(***************************************************************************)
(* Properties.                                                             *)
(***************************************************************************)

\* C1: the ids create_table returned are 0, 1, 2, ... in that order, and so
\* are the ids create_row returned for each stored table; no id is handed
\* out twice, whatever was removed in between, and every stored table or row
\* sits under an id that was handed out.
C1_IdsIncreaseNeverReused ==
    /\ \A i \in 1..Len(issuedTables) : issuedTables[i] = i - 1
    /\ \A id \in DOMAIN database.tables :
          /\ \E i \in 1..Len(issuedTables) : issuedTables[i] = id
          /\ database.tables[id].id = id
    /\ \A t \in DOMAIN issuedRows :
          /\ \A i \in 1..Len(issuedRows[t]) : issuedRows[t][i] = i - 1
          /\ \A id \in DOMAIN database.tables[t].rows :
                /\ \E i \in 1..Len(issuedRows[t]) : issuedRows[t][i] = id
                /\ database.tables[t].rows[id].id = id

\* A row was just added under id 1 to table 1 after row 0 of that table and
\* table 0 of the database were removed.
C1_Witness ==
    /\ request.op = "create_row"
    /\ last.status = 201
    /\ request.args[1] = 1
    /\ last.body[1].id = 1
    /\ 0 \notin DOMAIN database.tables
    /\ DOMAIN database.tables[1].rows = {1}

\* C2: every row stored in a table has as many cells as the table has
\* columns, and the cell at each position is a value the column at that
\* position accepts.
C2_RowsFitColumns ==
    \A t \in DOMAIN database.tables :
        \A id \in DOMAIN database.tables[t].rows :
            LET columns == database.tables[t].columns
                cells == database.tables[t].rows[id].cells IN
            /\ Len(cells) = Len(columns)
            /\ \A i \in 1..Len(columns) : check_value(columns[i], cells[i])

\* A cell of a stored row of a Real column was just overwritten with the
\* decimal 1.5 while another row is stored beside it.
C2_Witness ==
    /\ request.op = "update_cell_value"
    /\ last.status = 200
    /\ database.tables[0].columns[1].type = "Real"
    /\ database.tables[0].rows[request.args[2]].cells = <<DecVal(15)>>
    /\ Cardinality(DOMAIN database.tables[0].rows) >= 2

\* C6: an update_cell_value that addresses a stored row and a column in
\* range with a value the column rejects is answered TypeMismatch and
\* leaves the database, hence the row, its cells, its id and the table's
\* set of rows, as they were.
C6_RejectedUpdateChangesNothing ==
    [][(/\ request'.op = "update_cell_value"
        /\ request'.args[1] \in DOMAIN database.tables
        /\ request'.args[2] \in DOMAIN database.tables[request'.args[1]].rows
        /\ request'.args[3] < Len(database.tables[request'.args[1]].columns)
        /\ ~check_value(database.tables[request'.args[1]].columns[request'.args[3] + 1],
                        request'.args[4]))
       => (/\ last'.status = 400
           /\ last'.error = "TypeMismatch"
           /\ database'.tables[request'.args[1]].rows[request'.args[2]]
                = database.tables[request'.args[1]].rows[request'.args[2]]
           /\ DOMAIN database'.tables[request'.args[1]].rows
                = DOMAIN database.tables[request'.args[1]].rows
           /\ database' = database)]_vars

\* An update of the Char cell of a stored row with a two-character text was
\* just rejected, and the cell still holds its one character.
C6_Witness ==
    /\ request.op = "update_cell_value"
    /\ last.error = "TypeMismatch"
    /\ request.args[3] = 1
    /\ request.args[4] = StrVal(<<"a", "b">>)
    /\ database.tables[0].rows[request.args[2]].cells = <<IntVal(1), StrVal(<<"a">>)>>

\* C7: a create_row on a stored table with a number of cells other than the
\* table's number of columns is answered RowLengthMismatch, whether its
\* cells would pass their columns' check_value or not.
C7_LengthMismatchFirst ==
    (/\ request.op = "create_row"
     /\ request.args[1] \in DOMAIN database.tables
     /\ Len(request.args[2]) # Len(database.tables[request.args[1]].columns))
    => (last.status = 400 /\ last.error = "RowLengthMismatch")

\* A one-cell row whose cell the first of two columns rejects was just
\* refused for its length.
C7_Witness ==
    /\ request.op = "create_row"
    /\ last.error = "RowLengthMismatch"
    /\ Len(database.tables[0].columns) = 2
    /\ Len(request.args[2]) = 1
    /\ ~check_value(database.tables[0].columns[1], request.args[2][1])

\* C10: a create_row that fails on a stored table leaves the database as it
\* was (no row stored, the counter not advanced) and hands out no id; when
\* the lengths agree the error reported is that of the first cell, in column
\* order, its column rejects; and a create_row that succeeds returns the
\* counter's value from before the request.
C10_FailedAddConsumesNothing ==
    [][(request'.op = "create_row" /\ request'.args[1] \in DOMAIN database.tables)
       => LET t == database.tables[request'.args[1]]
              cells == request'.args[2]
              bad == {i \in 1..Len(t.columns) :
                        Len(cells) = Len(t.columns) /\ ~check_value(t.columns[i], cells[i])} IN
          IF last'.status # 201
          THEN /\ database' = database
               /\ issuedRows' = issuedRows
               /\ \/ /\ Len(cells) # Len(t.columns)
                     /\ last'.error = "RowLengthMismatch"
                  \/ /\ bad # {}
                     /\ last'.error = "TypeMismatch"
                     /\ \E i \in bad :
                           /\ \A j \in bad : i <= j
                           /\ last'.body = <<TypeMismatch(t.columns[i], cells[i])>>
          ELSE /\ last'.body[1].id = t.next_id
               /\ Len(cells) = Len(t.columns)
               /\ bad = {}]_vars

\* A row whose two cells are both rejected by their columns was just refused
\* with the first column's error, on a table that had handed out an id.
C10_Witness ==
    /\ request.op = "create_row"
    /\ last.error = "TypeMismatch"
    /\ request.args[2] = <<StrVal(<<"a">>), IntVal(1)>>
    /\ last.body[1].expected = <<"Integer">>
    /\ database.tables[0].next_id = 1

\* The difference just returned, when the latest request was one.
Returned == last.body[1]

IsDifference == request.op = "get_table_difference" /\ last.status = 200

\* C3: the rows of a returned difference are exactly the rows of the left
\* table, under their ids in the left table, whose cells no row of the right
\* table equals cell for cell (the comparison being the code's ==); rows of
\* the left table with equal cells are therefore all kept or all dropped,
\* however many they are and however many rows of the right table match.
C3_DifferenceIsSetFilter ==
    IsDifference =>
        LET left == database.tables[request.args[1]]
            right == database.tables[request.args[2]] IN
        /\ Returned.left_table = left
        /\ Returned.right_table = right
        /\ DOMAIN Returned.rows =
             {id \in DOMAIN left.rows :
                ~\E k \in DOMAIN right.rows :
                    /\ Len(left.rows[id].cells) = Len(right.rows[k].cells)
                    /\ \A i \in 1..Len(left.rows[id].cells) :
                          PyEq(left.rows[id].cells[i], right.rows[k].cells[i])}
        /\ \A id \in DOMAIN Returned.rows : Returned.rows[id] = left.rows[id]
        /\ \A a, b \in DOMAIN left.rows :
              left.rows[a].cells = left.rows[b].cells
              => (a \in DOMAIN Returned.rows <=> b \in DOMAIN Returned.rows)

\* A difference was just returned for a left table holding the same
\* two-cell row twice (ids 0 and 2) and another row sharing its first cell
\* (id 1), and a right table holding that row twice: only row 1 is returned.
C3_Witness ==
    /\ IsDifference
    /\ request.args = <<0, 1>>
    /\ DOMAIN database.tables[0].rows = {0, 1, 2}
    /\ database.tables[0].rows[0].cells = <<IntVal(1), StrVal(<<"a">>)>>
    /\ database.tables[0].rows[2].cells = <<IntVal(1), StrVal(<<"a">>)>>
    /\ database.tables[0].rows[1].cells = <<IntVal(1), StrVal(<<"b">>)>>
    /\ Cardinality(DOMAIN database.tables[1].rows) = 2
    /\ \A k \in DOMAIN database.tables[1].rows :
          database.tables[1].rows[k].cells = <<IntVal(1), StrVal(<<"a">>)>>
    /\ DOMAIN Returned.rows = {1}

\* C4 as claimed: a row of the left table that differs from every row of the
\* right table in the kind of the cell at some position is in the returned
\* difference.
C4_KindsNeverEqual ==
    IsDifference =>
        \A id \in DOMAIN Returned.left_table.rows :
            (\A k \in DOMAIN Returned.right_table.rows :
                \E i \in 1..Len(Returned.left_table.rows[id].cells) :
                    Returned.left_table.rows[id].cells[i].kind
                      # Returned.right_table.rows[k].cells[i].kind)
            => id \in DOMAIN Returned.rows

\* Two cells the comparison tells apart: two numbers (int or Decimal, in any
\* mix) of different numeric value, or two values that are not both numbers
\* and differ in kind or content.
Distinct(a, b) ==
    IF a.kind \in {"int", "Decimal"} /\ b.kind \in {"int", "Decimal"}
    THEN (IF a.kind = "int" THEN 10 * a.num ELSE a.num)
           # (IF b.kind = "int" THEN 10 * b.num ELSE b.num)
    ELSE a # b

\* C4 as amended: a row of the left table is in the returned difference if
\* every row of the right table has a Distinct cell at some position, and is
\* not in it if some row of the right table has no Distinct cell; an int and
\* a Decimal of the same numeric value are not Distinct.
C4_ValueEquality ==
    IsDifference =>
        \A id \in DOMAIN Returned.left_table.rows :
            LET cells == Returned.left_table.rows[id].cells
                differs(k) == \E i \in 1..Len(cells) :
                                 Distinct(cells[i], Returned.right_table.rows[k].cells[i]) IN
            /\ (\A k \in DOMAIN Returned.right_table.rows : differs(k))
                  => id \in DOMAIN Returned.rows
            /\ (\E k \in DOMAIN Returned.right_table.rows : ~differs(k))
                  => id \notin DOMAIN Returned.rows

\* A difference was just returned for two Real tables, the left holding the
\* integer 1 and the right only the decimal 1.0: the left row is dropped.
C4_Witness ==
    /\ IsDifference
    /\ request.args = <<0, 1>>
    /\ \E id \in DOMAIN database.tables[0].rows :
          /\ database.tables[0].rows[id].cells = <<IntVal(1)>>
          /\ id \notin DOMAIN Returned.rows
    /\ DOMAIN database.tables[1].rows # {}
    /\ \A k \in DOMAIN database.tables[1].rows :
          database.tables[1].rows[k].cells = <<DecVal(10)>>

\* Two columns of the same type: the same Type and the same six bounds.
SameType(l, r) == l.type = r.type /\ Bounds(l) = Bounds(r)

\* C5: the subtraction of two stored tables of the same column count raises
\* IncompatibleColumnTypes exactly when the columns at some position are not
\* of the same type.
C5_IncompatibleIffTypesDiffer ==
    (/\ request.op = "get_table_difference"
     /\ last.status # 404
     /\ Len(database.tables[request.args[1]].columns)
          = Len(database.tables[request.args[2]].columns))
    => (last.error = "IncompatibleColumnTypes"
        <=> \E i \in 1..Len(database.tables[request.args[1]].columns) :
               ~SameType(database.tables[request.args[1]].columns[i],
                         database.tables[request.args[2]].columns[i]))

\* The range-presence rule of a column: a ColorInvl with all six bounds and
\* min <= max in each channel, or another type with no bound at all.
RangeRule(c) ==
    IF c.type = "ColorInvl"
    THEN /\ None \notin {c.r_min, c.r_max, c.g_min, c.g_max, c.b_min, c.b_max}
         /\ c.r_min <= c.r_max
         /\ c.g_min <= c.g_max
         /\ c.b_min <= c.b_max
    ELSE {c.r_min, c.r_max, c.g_min, c.g_max, c.b_min, c.b_max} = {None}

\* C8: a column is constructed exactly when its input meets the range rule;
\* otherwise the construction is rejected with MissingRange (a ColorInvl
\* lacking a bound), RangeOutOfOrder (a ColorInvl with min > max in some
\* channel) or UnexpectedRange (another type with a bound); and every column
\* of a stored table meets the rule.
C8_ConstructedIffRangeRule ==
    /\ column # <<>> =>
          LET c == column[1].input IN
          /\ column[1].status = "ok" <=> RangeRule(c)
          /\ column[1].status \in {"ok", "MissingRange", "RangeOutOfOrder", "UnexpectedRange"}
          /\ column[1].status = "MissingRange" =>
                c.type = "ColorInvl" /\ None \in {c.r_min, c.r_max, c.g_min, c.g_max, c.b_min, c.b_max}
          /\ column[1].status = "RangeOutOfOrder" =>
                c.type = "ColorInvl" /\ (c.r_min > c.r_max \/ c.g_min > c.g_max \/ c.b_min > c.b_max)
          /\ column[1].status = "UnexpectedRange" => c.type # "ColorInvl"
    /\ \A t \in DOMAIN database.tables :
          \A i \in 1..Len(database.tables[t].columns) :
              RangeRule(database.tables[t].columns[i])

\* A ColorInvl column with a proper green range and a one-point blue range
\* was constructed and a table of it is stored.
C8_Witness ==
    /\ column # <<>>
    /\ column[1].status = "ok"
    /\ column[1].input.type = "ColorInvl"
    /\ column[1].input.g_min < column[1].input.g_max
    /\ column[1].input.b_min = column[1].input.b_max
    /\ 0 \in DOMAIN database.tables
    /\ database.tables[0].columns = <<column[1].input>>

\* C9: check_value of a constructed ColorInvl column accepts a value exactly
\* when it is a color each of whose channels lies between that channel's own
\* min and max, both included.
C9_IntervalInclusive ==
    (checked # <<>> /\ column[1].input.type = "ColorInvl") =>
        LET c == column[1].input
            v == checked[1].value IN
        checked[1].ok <=>
            /\ v.kind = "Color"
            /\ v.r \in c.r_min..c.r_max
            /\ v.g \in c.g_min..c.g_max
            /\ v.b \in c.b_min..c.b_max

\* A color whose red channel equals r_max, whose green channel equals g_min
\* and whose blue channel lies strictly inside its range was accepted by a
\* column whose three ranges differ.
C9_Witness ==
    /\ checked # <<>>
    /\ checked[1].ok
    /\ column[1].input.type = "ColorInvl"
    /\ checked[1].value.r = column[1].input.r_max
    /\ checked[1].value.g = column[1].input.g_min
    /\ column[1].input.g_min < column[1].input.g_max
    /\ column[1].input.b_min < checked[1].value.b
    /\ checked[1].value.b < column[1].input.b_max
    /\ column[1].input.r_max < column[1].input.g_min

====
